---- MODULE Spec2Model ----
(***************************************************************************)
(* GhostPass: the IP rotator (core/ip_rotator.py), the TOR controller      *)
(* (core/tor_controller.py) and the encryption manager                     *)
(* (core/encryption.py) as one state machine.                              *)
(*                                                                         *)
(* The rotator runs on one asyncio event loop: a coroutine runs without    *)
(* interruption from one await that really suspends to the next, so every  *)
(* action below is the code between two suspension points.  The only       *)
(* awaits of rotate_ip that suspend are the two asyncio.sleep(5) calls     *)
(* (tor_controller.py:158 and ip_rotator.py:121); get_current_ip and       *)
(* get_ip_location are coroutines that block on requests and never yield.  *)
(***************************************************************************)
EXTENDS Integers, Sequences, FiniteSets, TLC

\* ------------------------------------------------------------- bounds
NumCallers == 2    \* coroutines that call rotate_ip()/start_rotation() directly
MaxTasks == 2      \* background tasks start_rotation() may create in one run
MaxSnap == 2       \* IPInfo objects created in one run
MaxCirc == 2       \* circuits TOR builds in one run
MaxHist == 2       \* length ip_history may reach
MaxPool == 2       \* length safe_exit_nodes may reach
MaxCallbacks == 2  \* callbacks add_rotation_callback() may register

\* Python's None for the Optional[...] fields; objects are numbered from 1.
None == 0
Nil == [nil |-> TRUE]

Callers == 1..NumCallers
Tasks == 1..MaxTasks
\* A rotate_ip() frame belongs to a direct caller or to a background task.
TaskProc(t) == NumCallers + t
Procs == 1..(NumCallers + MaxTasks)
IsTask(p) == p > NumCallers
TaskOf(p) == p - NumCallers

Modes == {"manual", "timed", "interval", "performance"}
LoopKinds == Modes \ {"manual"}

VARIABLES
    \* IPRotator
    config, ip_history, current_ip_info, rotation_task, is_rotating,
    last_rotation_time, rotation_callbacks,
    \* the performance_score field of the IPInfo objects, by serial number
    performance_score,
    \* TorController
    controller, tor_process, is_connected, current_circuit, safe_exit_nodes,
    \* coroutines: rot[p] is where p's rotate_ip() frame is suspended,
    \* task[t] the background task t
    rot, task,
    \* wall clock, in minutes since the start of the run
    now,
    \* serial numbers of the objects created so far
    snap_seq, circ_seq,
    \* history variables (observations, read by no action's guard), and which
    \* of them the specification at hand records
    flight, last_ret, stop_run, fired, watch,
    \* EncryptionManager: _master_key, _session_keys, and what the latest call
    \* on the manager was given and gave back
    master_key, session_keys, outcome

rotatorVars == <<config, ip_history, current_ip_info, rotation_task,
                 is_rotating, last_rotation_time, rotation_callbacks,
                 performance_score>>
torVars == <<controller, tor_process, is_connected, current_circuit,
             safe_exit_nodes>>
progVars == <<rotatorVars, torVars, rot, task, now, snap_seq, circ_seq>>
cryptoVars == <<master_key, session_keys, outcome>>
vars == <<progVars, flight, last_ret, stop_run, fired, watch, cryptoVars>>

Min(a, b) == IF a < b THEN a ELSE b

\* ------------------------------------------------------- configuration
\* RotationConfig (ip_rotator.py:41-49).  schedule_times holds minutes of the
\* day for the "HH:MM" strings; the durations are in minutes.
DefaultIntervalMinutes == 30
DayMinutes == 1440
TimedFiredSleep == 60      \* asyncio.sleep(3600)
TimedPollSleep == 1        \* asyncio.sleep(60)
PerformanceSleep == 5      \* asyncio.sleep(300)
DefaultCooldownSeconds == 60
max_rotation_attempts == 3
RotationConfig(m, s) ==
    [mode |-> m, interval_minutes |-> DefaultIntervalMinutes,
     schedule_times |-> s, cooldown_seconds |-> DefaultCooldownSeconds]
Configs == {RotationConfig(m, {}) : m \in Modes} \cup {RotationConfig("timed", {2})}

\* ------------------------------------------------------- observations
\* The fields a failed rotation is expected to leave alone.
Tracked == [cur |-> current_ip_info, lrt |-> last_rotation_time,
            circ |-> current_circuit, conn |-> is_connected]
TrackedNext == [cur |-> current_ip_info', lrt |-> last_rotation_time',
                circ |-> current_circuit', conn |-> is_connected']

\* What a frame records when it passes the is_rotating guard; attempts counts
\* its calls of tor_controller.rotate_ip(), the first of which (line 115)
\* is made in the same step.
NewFlight == [pre |-> Tracked, hlen |-> Len(ip_history), others |-> 0,
              passed |-> 0, quiet |-> TRUE, attempts |-> 1,
              alone |-> \A q \in Procs : rot[q] \notin {"tor_wait", "settle"}]

\* What the frames in flight see of a step of somebody else: began = the step
\* is a rotate_ip() call, passedGuard = that call got past the guard.
Seen(f, began, passedGuard) ==
    IF f = Nil THEN Nil
    ELSE [f EXCEPT !.others = Min(2, @ + (IF began THEN 1 ELSE 0)),
                   !.passed = Min(2, @ + (IF passedGuard THEN 1 ELSE 0)),
                   !.quiet = @ /\ (TrackedNext = Tracked)]

\* The record of a rotate_ip() call that returned res: had = there was a
\* current snapshot at the call, kept = the tracked fields are as at the call.
Returned(p, res, f, note) ==
    [res |-> res, callbacks |-> note, had |-> f.pre.cur # None, kept |-> TrackedNext = f.pre,
     grew |-> Len(ip_history') - f.hlen, others |-> f.others,
     passed |-> f.passed, quiet |-> f.quiet, alone |-> f.alone,
     attempts |-> IF res = "busy" THEN 0 ELSE f.attempts]

\* What a call's callback loop did: how many callbacks were registered, how
\* many were invoked, how many of those raised, and whether the new snapshot
\* is the current one at the return.
NoCallbacks == [registered |-> 0, invoked |-> 0, raised |-> 0,
                is_current |-> FALSE]

\* A step of p's rotate_ip() frame.  began: the step is the call itself;
\* passedGuard: it got past the is_rotating guard; res: what the call returned
\* in this step ("" while it is still in flight): "busy" at the guard,
\* "build_failed" when tor_controller.rotate_ip() returned False, "fail" for
\* the later failures, "ok", or "cancelled".
NoteFrameWith(p, began, passedGuard, res, note) ==
    IF "calls" \in watch
    THEN /\ flight' = [q \in Procs |->
                         IF q # p THEN Seen(flight[q], began, passedGuard)
                         ELSE IF res # "" THEN Nil
                         ELSE IF began THEN NewFlight ELSE flight[p]]
         /\ last_ret' = IF res = "" THEN last_ret
                        ELSE Returned(p, res,
                                      IF began THEN NewFlight ELSE flight[p],
                                      note)
    ELSE UNCHANGED <<flight, last_ret>>

NoteFrame(p, began, passedGuard, res) ==
    NoteFrameWith(p, began, passedGuard, res, NoCallbacks)

\* A step of an actor that is no rotate_ip() frame.
NoteOutside ==
    /\ flight' = IF "calls" \in watch
                   THEN [q \in Procs |-> Seen(flight[q], FALSE, FALSE)]
                   ELSE flight
    /\ UNCHANGED last_ret

\* stop_run counts the stop_rotation() calls made in a row.  A step of the
\* rotator or of the controller leaves the encryption manager alone.
NoteStop(isStop) ==
    /\ stop_run' = IF "stops" \in watch /\ isStop THEN Min(2, stop_run + 1) ELSE 0
    /\ UNCHANGED <<watch, cryptoVars>>

\* fired[t] counts the rotate_ip() calls loop t made in the minute of its
\* latest one.
NoteFire(t) ==
    fired' = IF "fires" \in watch
               THEN [fired EXCEPT ![t] =
                       IF @.count > 0 /\ @.minute = now
                         THEN [@ EXCEPT !.count = Min(2, @ + 1)]
                         ELSE [minute |-> now, count |-> 1]]
               ELSE fired

\* ------------------------------------------------------- rotate_ip()
\* IPInfo(...) (ip_rotator.py:27-38): every field before timestamp is
\* required, so the one-argument call of line 142 raises TypeError.
IPInfoRaises(hasLocation) == ~hasLocation

\* The timer wait a background loop goes to when its rotate_ip() call is over.
SleepAfterRotate_None(kind) == 0
SleepAfterRotate(kind) ==
    CASE kind = "timed" -> TimedFiredSleep
      [] kind = "interval" -> config.interval_minutes
      [] kind = "performance" -> PerformanceSleep

\* A loop that ends when its rotate_ip() call is over.
FrameExit_LoopEnds(p) ==
    /\ rot' = [rot EXCEPT ![p] = "idle"]
    /\ task' = IF IsTask(p)
                 THEN [task EXCEPT ![TaskOf(p)].pc = "done"]
                 ELSE task

\* p's rotate_ip() frame is gone: a direct caller has its result, a
\* background loop is at its next asyncio.sleep().
FrameExit(p) ==
    /\ rot' = [rot EXCEPT ![p] = "idle"]
    /\ task' = IF IsTask(p)
                 THEN [task EXCEPT ![TaskOf(p)].pc = "sleep",
                                   ![TaskOf(p)].wake =
                                       now + SleepAfterRotate(task[TaskOf(p)].kind)]
                 ELSE task

\* The finally clause of rotate_ip() (ip_rotator.py:159-160).
FinallyFlag == FALSE

\* The guard of rotate_ip() (ip_rotator.py:103).
AlreadyRotating_Never == FALSE
AlreadyRotating == is_rotating

\* rotate_ip() from its call to its first suspension (ip_rotator.py:102-118
\* with tor_controller.py:150-158).  sigOk: controller.signal(NEWNYM) does
\* not raise.
RotateIpEnter(p, sigOk) ==
    /\ rot[p] = "idle"
    /\ UNCHANGED <<config, rotation_task, current_ip_info, last_rotation_time,
                   rotation_callbacks, torVars, now, snap_seq, circ_seq>>
    /\ IF AlreadyRotating
         THEN \* lines 103-105, then the finally clause
              /\ is_rotating' = FinallyFlag
              /\ UNCHANGED ip_history
              /\ FrameExit(p)
              /\ NoteFrame(p, TRUE, FALSE, "busy")
         ELSE \* lines 107-115
              /\ ip_history' = IF current_ip_info # None
                                 THEN Append(ip_history, current_ip_info)
                                 ELSE ip_history
              /\ Len(ip_history') <= MaxHist
              /\ IF controller /\ sigOk
                   THEN \* suspended in tor_controller.rotate_ip at its sleep(5)
                        /\ is_rotating' = TRUE
                        /\ rot' = [rot EXCEPT ![p] = "tor_wait"]
                        /\ task' = IF IsTask(p)
                                     THEN [task EXCEPT ![TaskOf(p)].pc = "rotating"]
                                     ELSE task
                        /\ NoteFrame(p, TRUE, TRUE, "")
                   ELSE \* tor_controller.py:151-152 or 166-168, then
                        \* ip_rotator.py:116-118 and the finally clause
                        /\ is_rotating' = FinallyFlag
                        /\ FrameExit(p)
                        /\ NoteFrame(p, TRUE, TRUE, "build_failed")

\* A frame whose task has a cancellation pending does not resume normally.
Resumable(p) == IsTask(p) => ~task[TaskOf(p)].cancel

\* tor_controller.rotate_ip resumes after its sleep(5): _update_circuit_info
\* (tor_controller.py:244-262), return True, and rotate_ip() goes to its own
\* sleep(5) (ip_rotator.py:116-121).  built: get_circuits() gave a circuit.
RotateIpTorDone(p, built) ==
    /\ rot[p] = "tor_wait"
    /\ Resumable(p)
    /\ IF controller /\ built
         THEN /\ circ_seq < MaxCirc
              /\ circ_seq' = circ_seq + 1
              /\ current_circuit' = circ_seq + 1
         ELSE UNCHANGED <<circ_seq, current_circuit>>
    /\ rot' = [rot EXCEPT ![p] = "settle"]
    /\ UNCHANGED <<rotatorVars, controller, tor_process, is_connected,
                   safe_exit_nodes, task, now, snap_seq>>
    /\ NoteFrame(p, FALSE, FALSE, "")

\* The callback loop (ip_rotator.py:147-151): each callback is awaited inside
\* its own try, so one that raises is logged and the loop goes on.  raisers
\* are the positions of the callbacks that raise.
NotifyCallbacks_Unguarded(callbacks, raisers) ==
    LET first == IF raisers = {} THEN Len(callbacks)
                 ELSE CHOOSE i \in raisers : \A j \in raisers : i <= j
    IN [invoked |-> first, propagated |-> raisers # {}]
NotifyCallbacks(callbacks, raisers) ==
    [invoked |-> Len(callbacks), propagated |-> FALSE]

\* rotate_ip() resumes after its sleep(5) and runs to its return
\* (ip_rotator.py:123-160).  gotIp: get_current_ip() gave an address;
\* gotLocation: get_ip_location() gave a dictionary.
RotateIpFinish(p, gotIp, gotLocation) ==
    /\ rot[p] = "settle"
    /\ Resumable(p)
    /\ is_rotating' = FinallyFlag
    /\ FrameExit(p)
    /\ UNCHANGED <<config, ip_history, rotation_task, rotation_callbacks,
                   performance_score, torVars, now, circ_seq>>
    /\ IF gotIp /\ ~IPInfoRaises(gotLocation)
         THEN /\ snap_seq < MaxSnap
              /\ snap_seq' = snap_seq + 1
              /\ current_ip_info' = snap_seq + 1
              /\ last_rotation_time' = snap_seq + 1
              /\ \E raisers \in SUBSET (1..Len(rotation_callbacks)) :
                   LET n == NotifyCallbacks(rotation_callbacks, raisers)
                   IN NoteFrameWith(p, FALSE, FALSE,
                          \* an exception that got out of the loop would end
                          \* in the except clause of lines 156-158
                          IF n.propagated THEN "fail" ELSE "ok",
                          [registered |-> Len(rotation_callbacks),
                           invoked |-> n.invoked,
                           raised |-> Cardinality(raisers \cap 1..n.invoked),
                           is_current |-> current_ip_info' = snap_seq'])
         ELSE /\ UNCHANGED <<snap_seq, current_ip_info, last_rotation_time>>
              /\ NoteFrame(p, FALSE, FALSE, "fail")

\* rotate_ip() resumes after its sleep(5), installs the new snapshot and
\* reaches a callback whose coroutine suspends (ip_rotator.py:123-149): the
\* frame waits in `await callback(...)`, inside the try, with is_rotating
\* still set.
RotateIpAwaitCallback(p) ==
    /\ rot[p] = "settle"
    /\ Resumable(p)
    /\ rotation_callbacks # <<>>
    /\ snap_seq < MaxSnap
    /\ snap_seq' = snap_seq + 1
    /\ current_ip_info' = snap_seq + 1
    /\ last_rotation_time' = snap_seq + 1
    /\ rot' = [rot EXCEPT ![p] = "callback_wait"]
    /\ UNCHANGED <<config, ip_history, rotation_task, is_rotating,
                   rotation_callbacks, performance_score, torVars, task, now,
                   circ_seq, fired>>
    /\ NoteFrame(p, FALSE, FALSE, "")
    /\ NoteStop(FALSE)

\* The callback rotate_ip() is waiting for completes; the rest of the loop,
\* `return True` and the finally clause follow (ip_rotator.py:149-160).
CallbackDone(p) ==
    /\ rot[p] = "callback_wait"
    /\ Resumable(p)
    /\ is_rotating' = FinallyFlag
    /\ FrameExit(p)
    /\ UNCHANGED <<config, ip_history, current_ip_info, rotation_task,
                   last_rotation_time, rotation_callbacks, performance_score,
                   torVars, now, snap_seq, circ_seq, fired>>
    /\ NoteFrameWith(p, FALSE, FALSE, "ok",
                     [registered |-> Len(rotation_callbacks),
                      invoked |-> Len(rotation_callbacks), raised |-> 0,
                      is_current |-> TRUE])
    /\ NoteStop(FALSE)

\* A direct call of rotate_ip() (cli/main.py:245, ui/dashboard.py:305).
RotateIp(c) ==
    /\ \E sigOk \in BOOLEAN : RotateIpEnter(c, sigOk)
    /\ NoteStop(FALSE)
    /\ UNCHANGED <<fired, performance_score>>

RotateIpResume(p) ==
    /\ \/ \E built \in BOOLEAN : RotateIpTorDone(p, built)
       \/ \E gotIp, gotLocation \in BOOLEAN : RotateIpFinish(p, gotIp, gotLocation)
    /\ NoteStop(FALSE)
    /\ UNCHANGED fired

\* The frames of a run in which get_current_ip() finds no address: every
\* rotation goes through its suspensions and ends at ip_rotator.py:125-127.
RotateIpResumeNoAddress(p) ==
    /\ \/ \E built \in BOOLEAN : RotateIpTorDone(p, built)
       \/ RotateIpFinish(p, FALSE, FALSE)
    /\ NoteStop(FALSE)
    /\ UNCHANGED fired

\* ------------------------------------------------- background loops
NoTask == [kind |-> "none", pc |-> "unborn", cancel |-> FALSE, wake |-> 0]

\* The first timer wait of a new loop: the timed loop polls at once
\* (ip_rotator.py:176), the others sleep first (lines 201 and 220).
FirstSleep(kind) ==
    CASE kind = "timed" -> 0
      [] kind = "interval" -> config.interval_minutes
      [] kind = "performance" -> PerformanceSleep

\* asyncio.create_task(loop) and the assignment to self.rotation_task
\* (ip_rotator.py:168, 193, 212).
CreateTask(t, kind) ==
    /\ task[t].pc = "unborn"
    /\ \A u \in Tasks : u < t => task[u].pc # "unborn"
    /\ task' = [task EXCEPT ![t] = [kind |-> kind, pc |-> "sleep",
                                    cancel |-> FALSE,
                                    wake |-> now + FirstSleep(kind)]]
    /\ rotation_task' = t

\* start_rotation() (ip_rotator.py:79-98) called by c.
StartRotation(c) ==
    /\ NoteStop(FALSE)
    /\ UNCHANGED <<fired, performance_score>>
    /\ IF config.mode = "manual"
         THEN \E sigOk \in BOOLEAN : RotateIpEnter(c, sigOk)
         ELSE /\ rot[c] = "idle"
              /\ UNCHANGED <<config, ip_history, current_ip_info, is_rotating,
                             last_rotation_time, rotation_callbacks, torVars,
                             rot, now, snap_seq, circ_seq>>
              /\ NoteOutside
              /\ IF config.mode = "timed" /\ config.schedule_times = {}
                   THEN UNCHANGED <<task, rotation_task>>   \* lines 164-166
                   ELSE \E t \in Tasks : CreateTask(t, config.mode)

\* task.cancel() (ip_rotator.py:271): the CancelledError is thrown into the
\* task when the event loop next runs it.
Cancel(t) == [task EXCEPT ![t].cancel = (task[t].pc # "done")]

\* stop_rotation() that also clears the is_rotating flag.
StopRotation_ClearsFlag ==
    /\ IF rotation_task # None
         THEN /\ task' = Cancel(rotation_task)
              /\ rotation_task' = None
         ELSE UNCHANGED <<task, rotation_task>>
    /\ is_rotating' = FALSE
    /\ UNCHANGED <<config, ip_history, current_ip_info,
                   last_rotation_time, rotation_callbacks, performance_score,
                   torVars, rot, now, snap_seq, circ_seq, fired>>
    /\ NoteOutside
    /\ NoteStop(TRUE)

\* stop_rotation() (ip_rotator.py:268-273).
StopRotation ==
    /\ IF rotation_task # None
         THEN /\ task' = Cancel(rotation_task)
              /\ rotation_task' = None
         ELSE UNCHANGED <<task, rotation_task>>
    /\ UNCHANGED <<config, ip_history, current_ip_info, is_rotating,
                   last_rotation_time, rotation_callbacks, performance_score,
                   torVars, rot, now, snap_seq, circ_seq, fired>>
    /\ NoteOutside
    /\ NoteStop(TRUE)

\* add_rotation_callback() (ip_rotator.py:275-277); callbacks are numbered
\* in the order they are registered.
AddRotationCallback ==
    /\ Len(rotation_callbacks) < MaxCallbacks
    /\ rotation_callbacks' =
           Append(rotation_callbacks, Len(rotation_callbacks) + 1)
    /\ UNCHANGED <<config, ip_history, current_ip_info, rotation_task,
                   is_rotating, last_rotation_time, performance_score, torVars,
                   rot, task, now, snap_seq, circ_seq, fired>>
    /\ NoteOutside
    /\ NoteStop(FALSE)

\* Python's xs[start:]: a negative start counts from the end, and both are
\* clipped to the list.
PySliceFrom(xs, start) ==
    LET from == IF start < 0
                  THEN IF Len(xs) + start < 0 THEN 0 ELSE Len(xs) + start
                  ELSE IF start > Len(xs) THEN Len(xs) ELSE start
    IN SubSeq(xs, from + 1, Len(xs))

\* get_ip_history() (ip_rotator.py:283-285); -0 is 0.
DefaultLimit == 10
Limits == 0..(MaxHist + 1) \cup {DefaultLimit}
get_ip_history(limit) ==
    IF ip_history # <<>> THEN PySliceFrom(ip_history, -limit) ELSE <<>>

\* set_rotation_config() (ip_rotator.py:300-303).
SetRotationConfig(cfg) ==
    /\ config' = cfg
    /\ UNCHANGED <<ip_history, current_ip_info, rotation_task, is_rotating,
                   last_rotation_time, rotation_callbacks, performance_score,
                   torVars, rot, task, now, snap_seq, circ_seq, fired>>
    /\ NoteOutside
    /\ NoteStop(FALSE)

\* The CancelledError reaches task t at the await it is suspended in.  In a
\* timer wait the loop's except clause breaks out (lines 185, 204, 229); in
\* rotate_ip() neither `except Exception` (tor_controller.py:166,
\* ip_rotator.py:156) catches it, the finally clause runs and it goes on to
\* the loop.
TaskCancelled(t) ==
    /\ task[t].cancel
    /\ task[t].pc \in {"sleep", "rotating"}
    /\ task' = [task EXCEPT ![t].pc = "done", ![t].cancel = FALSE]
    /\ UNCHANGED <<config, ip_history, current_ip_info, rotation_task,
                   last_rotation_time, rotation_callbacks, performance_score,
                   torVars, now, snap_seq, circ_seq, fired>>
    /\ IF task[t].pc = "rotating"
         THEN /\ is_rotating' = FinallyFlag
              /\ rot' = [rot EXCEPT ![TaskProc(t)] = "idle"]
              /\ NoteFrame(TaskProc(t), FALSE, FALSE, "cancelled")
         ELSE /\ UNCHANGED <<is_rotating, rot>>
              /\ NoteOutside
    /\ NoteStop(FALSE)

\* The timer wait of loop t is over.
Awake(t, kind) ==
    /\ task[t].kind = kind
    /\ task[t].pc = "sleep"
    /\ ~task[t].cancel

\* One pass of _interval_rotation_loop after its sleep (ip_rotator.py:201-202).
IntervalLoopBody(t) ==
    /\ Awake(t, "interval")
    /\ \E sigOk \in BOOLEAN : RotateIpEnter(TaskProc(t), sigOk)
    /\ UNCHANGED performance_score
    /\ NoteFire(t)
    /\ NoteStop(FALSE)

\* One pass of _timed_rotation_loop (ip_rotator.py:176-183); inSchedule is
\* `current_time in self.config.schedule_times`.
TimedLoopBody(t, inSchedule) ==
    /\ Awake(t, "timed")
    /\ NoteStop(FALSE)
    /\ IF inSchedule
         THEN /\ \E sigOk \in BOOLEAN : RotateIpEnter(TaskProc(t), sigOk)
              /\ UNCHANGED performance_score
              /\ NoteFire(t)
         ELSE /\ task' = [task EXCEPT ![t].wake = now + TimedPollSleep]
              /\ UNCHANGED <<rotatorVars, torVars, rot, now, snap_seq, circ_seq,
                             fired>>
              /\ NoteOutside

\* Scores are counted in fiftieths (1.0 is ScoreUnit) and response times in
\* tenths of a second, so that the arithmetic of ip_rotator.py:251 is exact.
ScoreUnit == 50
performance_threshold == 25
Latencies == {5, 10, 40, 70}

Max(a, b) == IF a > b THEN a ELSE b

\* max(0, 1 - (response_time - 1) / 5) (ip_rotator.py:251).
PerformanceScore(response_time) == Max(0, ScoreUnit - (response_time - 10))

\* A measurement whose failure is scored as a perfect connection.
TestConnectionPerformance_FailureIsFine(responded, response_time) ==
    IF responded THEN PerformanceScore(response_time) ELSE ScoreUnit

\* _test_connection_performance (ip_rotator.py:235-266): what it returns.
\* responded: session.get() did not raise.
TestConnectionPerformance(responded, response_time) ==
    IF responded THEN PerformanceScore(response_time) ELSE 0

\* ... and what it leaves in the current IPInfo (lines 254-260).
StorePerformance(responded, response_time) ==
    IF responded /\ current_ip_info # None
    THEN [performance_score EXCEPT ![current_ip_info] =
              PerformanceScore(response_time)]
    ELSE performance_score

\* One pass of _performance_rotation_loop after its sleep
\* (ip_rotator.py:220-227).
PerformanceLoopBody(t, responded, response_time) ==
    /\ Awake(t, "performance")
    /\ NoteStop(FALSE)
    /\ performance_score' = StorePerformance(responded, response_time)
    /\ IF TestConnectionPerformance(responded, response_time)
             < performance_threshold
         THEN /\ \E sigOk \in BOOLEAN : RotateIpEnter(TaskProc(t), sigOk)
              /\ NoteFire(t)
         ELSE /\ task' = [task EXCEPT ![t].wake = now + PerformanceSleep]
              /\ UNCHANGED <<config, ip_history, current_ip_info, rotation_task,
                             is_rotating, last_rotation_time, rotation_callbacks,
                             torVars, rot, now, snap_seq, circ_seq, fired>>
              /\ NoteOutside

\* The loops with their timers and the clock left open: a timer wait may end
\* at any moment and the clock may show any minute.
IntervalLoop(t) == IntervalLoopBody(t)
TimedLoop(t) ==
    \E inSchedule \in BOOLEAN :
        /\ inSchedule => config.schedule_times # {}
        /\ TimedLoopBody(t, inSchedule)
PerformanceLoop(t) ==
    \E responded \in BOOLEAN, response_time \in Latencies :
        PerformanceLoopBody(t, responded, response_time)

\* ---------------------------------------------------- TorController
\* What controller.get_network_statuses() may list: exit-node fingerprints.
Feeds == {<<>>, <<1>>}

\* _load_safe_exit_nodes (tor_controller.py:204-231): every listed exit node
\* passes _is_node_safe and is appended.
LoadSafeExitNodes(feed) == safe_exit_nodes \o feed

\* start_tor() up to its asyncio.sleep(3) (tor_controller.py:77-108);
\* launched: launch_tor_with_config did not raise.
StartTor(c, launched) ==
    /\ rot[c] = "idle"
    /\ IF launched
         THEN /\ tor_process' = TRUE
              /\ rot' = [rot EXCEPT ![c] = "start_wait"]
         ELSE UNCHANGED <<tor_process, rot>>
    /\ UNCHANGED <<rotatorVars, controller, is_connected, current_circuit,
                   safe_exit_nodes, task, now, snap_seq, circ_seq, fired>>
    /\ NoteOutside
    /\ NoteStop(FALSE)

\* start_tor() after the sleep (tor_controller.py:110-124); connected:
\* Controller.from_port and authenticate did not raise.
StartTorConnect(c, connected, feed) ==
    /\ rot[c] = "start_wait"
    /\ rot' = [rot EXCEPT ![c] = "idle"]
    /\ IF connected
         THEN /\ controller' = TRUE
              /\ is_connected' = TRUE
              /\ safe_exit_nodes' = LoadSafeExitNodes(feed)
              /\ Len(safe_exit_nodes') <= MaxPool
         ELSE UNCHANGED <<controller, is_connected, safe_exit_nodes>>
    /\ UNCHANGED <<rotatorVars, tor_process, current_circuit, task, now,
                   snap_seq, circ_seq, fired>>
    /\ NoteOutside
    /\ NoteStop(FALSE)

\* stop_tor() (tor_controller.py:131-146); closed, killed: controller.close()
\* and tor_process.kill() did not raise.
StopTor(closed, killed) ==
    /\ IF controller /\ ~closed
         THEN UNCHANGED <<controller, tor_process, is_connected>>
         ELSE /\ controller' = FALSE
              /\ IF tor_process /\ ~killed
                   THEN UNCHANGED <<tor_process, is_connected>>
                   ELSE /\ tor_process' = FALSE
                        /\ is_connected' = FALSE
    /\ UNCHANGED <<rotatorVars, current_circuit, safe_exit_nodes, rot, task,
                   now, snap_seq, circ_seq, fired>>
    /\ NoteOutside
    /\ NoteStop(FALSE)

\* get_connection_status() (tor_controller.py:264-272).
socks_port == 9050
control_port == 9051
get_connection_status ==
    [is_connected |-> is_connected,
     socks_port |-> socks_port,
     control_port |-> control_port,
     safe_exit_nodes_count |-> Len(safe_exit_nodes),
     current_circuit |-> current_circuit]

\* ------------------------------------------------- encryption manager
MaxRand == 2       \* values os.urandom() may return for one length
Passwords == {"pw"}
Payloads == {<<>>, <<72, 105>>}
SessionIds == {<<"default">>, <<"e2">>}

\* f"{session_id}_chacha" (encryption.py:217, 248).
ChachaId(session_id) == session_id \o <<"_chacha">>
KeyIds == SessionIds \cup {ChachaId(e) : e \in SessionIds}
\* The _session_keys entry layer 1 (encrypt_aes, encryption.py:214 with
\* 90-93) and layer 2 (encrypt_chacha20, 217-220) of a session read.  A
\* session id is any string, one ending in "_chacha" included.
Layer1Entry(session_id) == session_id
Layer2Entry(session_id) == ChachaId(session_id)

\* os.urandom(n): n bytes, r says which.
Urandom(n, r) == [len |-> n, val |-> r]
Rands == 1..MaxRand
\* EncryptionConfig (encryption.py:24-32).
salt_size == 16
iv_size == 12

\* Byte strings.  A plaintext is its bytes; a GCM ciphertext is a term over
\* key, iv and what was encrypted; pads is the set of ChaCha20 key streams
\* XORed over it, so applying a key stream twice takes it off again.
Bytes(P) == [kind |-> "plain", body |-> P, pads |-> {}]
Sealed(key, iv, data) ==
    [kind |-> "gcm", body |-> [key |-> key, iv |-> iv, data |-> data],
     pads |-> {}]
Xor(data, stream) ==
    [data EXCEPT !.pads = (@ \ {stream}) \cup ({stream} \ @)]

\* What a call gives back: the exception it raised ("none" if it returned),
\* its value, and _session_keys as the call leaves it.
Ok(value, keys) == [raised |-> "none", value |-> value, keys |-> keys]
Raise(exc, keys) == [raised |-> exc, value |-> Nil, keys |-> keys]

\* No key: _master_key is None, or _session_keys has no such entry.
NoKey == [kdf |-> "none"]
\* PBKDF2HMAC(...).derive(password) (encryption.py:58-66).
PBKDF2(password, salt) == [kdf |-> "pbkdf2", password |-> password, salt |-> salt]
\* HKDF(..., info=b"session").derive(master_key + session_id) (74-82).
HKDF(master, session_id) == [kdf |-> "hkdf", master |-> master, id |-> session_id]

\* derive_session_key that returns the key without keeping it.
derive_session_key_Unsaved(keys, session_id) ==
    IF master_key = NoKey
    THEN Raise("ValueError", keys)
    ELSE Ok(HKDF(master_key, session_id), keys)

\* derive_session_key (encryption.py:69-84).
derive_session_key(keys, session_id) ==
    IF master_key = NoKey
    THEN Raise("ValueError", keys)
    ELSE LET session_key == HKDF(master_key, session_id)
         IN Ok(session_key, [keys EXCEPT ![session_id] = session_key])

\* `if session_id not in self._session_keys: self.derive_session_key(...)`,
\* then `key = self._session_keys[session_id]` (encryption.py:90-93, 141-144).
SessionKey(keys, session_id) ==
    IF keys[session_id] = NoKey
    THEN derive_session_key(keys, session_id)
    ELSE Ok(keys[session_id], keys)

\* encrypt_aes with key=None (encryption.py:86-113); r picks the iv.
encrypt_aes(data, session_id, r, keys) ==
    LET k == SessionKey(keys, session_id)
        iv == Urandom(iv_size, r)
    IN IF k.raised # "none" THEN k
       ELSE Ok([ciphertext |-> Sealed(k.value, iv, data), iv |-> iv,
                tag |-> [key |-> k.value, iv |-> iv, data |-> data]],
               k.keys)

\* decrypt_aes with key=None (encryption.py:115-135): finalize() raises
\* InvalidTag unless key, iv and tag are those the ciphertext was sealed with.
decrypt_aes(encrypted_data, session_id, keys) ==
    IF keys[session_id] = NoKey
    THEN Raise("ValueError", keys)
    ELSE LET c == encrypted_data.ciphertext
             sealed == [key |-> keys[session_id], iv |-> encrypted_data.iv,
                        data |-> encrypted_data.tag.data]
         IN IF /\ c.kind = "gcm"
               /\ c.pads = {}
               /\ c.body = sealed
               /\ encrypted_data.tag = sealed
            THEN Ok(c.body.data, keys)
            ELSE Raise("InvalidTag", keys)

\* Cipher(algorithms.ChaCha20(key, nonce), mode=None) applied to data
\* (encryption.py:149-158, 173-182).  cryptography's ChaCha20 takes a 128-bit
\* nonce, the block counter included, and raises ValueError for any other
\* length.
ChaCha20(key, nonce, data, keys) ==
    IF nonce.len # 16
    THEN Raise("ValueError", keys)
    ELSE Ok(Xor(data, [key |-> key, nonce |-> nonce]), keys)

\* encrypt_chacha20 with key=None (encryption.py:137-163); r picks the nonce.
encrypt_chacha20(data, session_id, r, keys) ==
    LET k == SessionKey(keys, session_id)
        nonce == Urandom(12, r)
    IN IF k.raised # "none" THEN k
       ELSE LET c == ChaCha20(k.value, nonce, data, k.keys)
            IN IF c.raised # "none" THEN c
               ELSE Ok([ciphertext |-> c.value, nonce |-> nonce], c.keys)

\* decrypt_chacha20 with key=None (encryption.py:165-185).
decrypt_chacha20(encrypted_data, session_id, keys) ==
    IF keys[session_id] = NoKey
    THEN Raise("ValueError", keys)
    ELSE ChaCha20(keys[session_id], encrypted_data.nonce,
                  encrypted_data.ciphertext, keys)

\* encrypt_multi_layer (encryption.py:208-231); the except clause re-raises.
encrypt_multi_layer(data, session_id, r1, r2, keys) ==
    LET aes_encrypted == encrypt_aes(data, session_id, r1, keys)
    IN IF aes_encrypted.raised # "none" THEN aes_encrypted
       ELSE LET chacha_encrypted ==
                    encrypt_chacha20(aes_encrypted.value.ciphertext,
                                     ChachaId(session_id), r2, aes_encrypted.keys)
            IN IF chacha_encrypted.raised # "none" THEN chacha_encrypted
               ELSE Ok([aes_iv |-> aes_encrypted.value.iv,
                        aes_tag |-> aes_encrypted.value.tag,
                        chacha_nonce |-> chacha_encrypted.value.nonce,
                        final_ciphertext |-> chacha_encrypted.value.ciphertext,
                        session_id |-> session_id],
                       chacha_encrypted.keys)

\* decrypt_multi_layer (encryption.py:233-260).
decrypt_multi_layer(encrypted_data, keys) ==
    LET session_id == encrypted_data.session_id
        aes_ciphertext ==
            decrypt_chacha20([ciphertext |-> encrypted_data.final_ciphertext,
                              nonce |-> encrypted_data.chacha_nonce],
                             ChachaId(session_id), keys)
    IN IF aes_ciphertext.raised # "none" THEN aes_ciphertext
       ELSE decrypt_aes([ciphertext |-> aes_ciphertext.value,
                         iv |-> encrypted_data.aes_iv,
                         tag |-> encrypted_data.aes_tag],
                        session_id, aes_ciphertext.keys)

\* A call on the manager: what it was, what it was given, the keys it found
\* and what it gave back.
Outcome(op, data, session_id, other_id, res) ==
    [op |-> op, data |-> data, session_id |-> session_id,
     other_id |-> other_id, master |-> master_key, had |-> session_keys,
     raised |-> res.raised, value |-> res.value]

CryptoStep == UNCHANGED <<progVars, flight, last_ret, stop_run, fired, watch>>

\* generate_master_key(password) (encryption.py:53-67); r picks the salt.
GenerateMasterKey(password, r) ==
    /\ master_key' = PBKDF2(password, Urandom(salt_size, r))
    /\ outcome' = Outcome("generate_master_key", <<>>, <<>>, <<>>,
                          Ok(master_key', session_keys))
    /\ UNCHANGED session_keys
    /\ CryptoStep

\* derive_session_key(session_id) called directly.
DeriveSessionKey(session_id) ==
    LET res == derive_session_key(session_keys, session_id)
    IN /\ session_keys' = res.keys
       /\ outcome' = Outcome("derive_session_key", <<>>, session_id, <<>>, res)
       /\ UNCHANGED master_key
       /\ CryptoStep

\* decrypt_aes(encrypt_aes(data, session_id=e1), session_id=e2), as
\* test_ghostpass.py:112-113 does with the default session.
AesRoundTrip(data, e1, e2, r) ==
    LET enc == encrypt_aes(Bytes(data), e1, r, session_keys)
        res == IF enc.raised # "none" THEN enc
               ELSE decrypt_aes(enc.value, e2, enc.keys)
    IN /\ session_keys' = res.keys
       /\ outcome' = Outcome("aes_round_trip", data, e1, e2, res)
       /\ UNCHANGED master_key
       /\ CryptoStep

\* decrypt_multi_layer(encrypt_multi_layer(data, session_id)).
RoundTrip(data, session_id, r1, r2) ==
    LET enc == encrypt_multi_layer(Bytes(data), session_id, r1, r2, session_keys)
        res == IF enc.raised # "none" THEN enc
               ELSE decrypt_multi_layer(enc.value, enc.keys)
    IN /\ session_keys' = res.keys
       /\ outcome' = Outcome("round_trip", data, session_id, session_id, res)
       /\ UNCHANGED master_key
       /\ CryptoStep

\* The envelope of encrypt_multi_layer(data, e1) handed to
\* decrypt_multi_layer with its session_id set to e2.
CrossEpoch(data, e1, e2, r1, r2) ==
    LET enc == encrypt_multi_layer(Bytes(data), e1, r1, r2, session_keys)
        res == IF enc.raised # "none" THEN enc
               ELSE decrypt_multi_layer([enc.value EXCEPT !.session_id = e2],
                                        enc.keys)
    IN /\ e1 # e2
       /\ session_keys' = res.keys
       /\ outcome' = Outcome("cross_epoch", data, e1, e2, res)
       /\ UNCHANGED master_key
       /\ CryptoStep

\* clear_session_keys() (encryption.py:283-286).
ClearSessionKeys ==
    /\ session_keys' = [k \in KeyIds |-> NoKey]
    /\ outcome' = Outcome("clear_session_keys", <<>>, <<>>, <<>>,
                          Ok(Nil, session_keys'))
    /\ UNCHANGED master_key
    /\ CryptoStep

\* ------------------------------------------------------ specifications
\* IPRotator.__init__ (ip_rotator.py:64-77) and TorController.__init__
\* (tor_controller.py:60-73).
InitProgram ==
    /\ config = RotationConfig("manual", {})
    /\ ip_history = <<>>
    /\ current_ip_info = None
    /\ rotation_task = None
    /\ is_rotating = FALSE
    /\ last_rotation_time = None
    /\ rotation_callbacks = <<>>
    /\ performance_score = [i \in 1..MaxSnap |-> 0]
    /\ controller = FALSE
    /\ tor_process = FALSE
    /\ is_connected = FALSE
    /\ current_circuit = None
    /\ safe_exit_nodes = <<>>
    /\ rot = [p \in Procs |-> "idle"]
    /\ task = [t \in Tasks |-> NoTask]
    /\ now = 0
    /\ snap_seq = 0
    /\ circ_seq = 0
    \* EncryptionManager.__init__ (encryption.py:47-51)
    /\ master_key = NoKey
    /\ session_keys = [k \in KeyIds |-> NoKey]
    /\ outcome = Nil

InitNotes ==
    /\ flight = [p \in Procs |-> Nil]
    /\ last_ret = Nil
    /\ stop_run = 0
    /\ fired = [t \in Tasks |-> [minute |-> 0, count |-> 0]]

\* Direct rotate_ip() calls against a TOR controller that is started and
\* stopped.
Init == InitProgram /\ InitNotes /\ watch = {"calls"}

Next ==
    \/ \E c \in Callers : RotateIp(c)
    \/ \E c \in Callers : RotateIpResume(c)
    \/ \E launched \in BOOLEAN : StartTor(1, launched)
    \/ \E connected \in BOOLEAN : StartTorConnect(1, connected, <<>>)

Spec == Init /\ [][Next]_vars

\* The scheduling interface and the background loops, timers left open, in a
\* run where no address lookup succeeds (what a rotation establishes is the
\* subject of Spec).
InitLoops == InitProgram /\ InitNotes /\ watch = {"stops"}

NextLoops ==
    \/ StartRotation(1)
    \/ StopRotation
    \/ \E cfg \in Configs : SetRotationConfig(cfg)
    \/ \E p \in Procs : RotateIpResumeNoAddress(p)
    \/ \E t \in Tasks : TaskCancelled(t)
    \/ \E t \in Tasks : IntervalLoop(t)
    \/ \E t \in Tasks : TimedLoop(t)
    \/ \E t \in Tasks : PerformanceLoop(t)
    \/ \E launched \in BOOLEAN : StartTor(1, launched)
    \/ \E connected \in BOOLEAN : StartTorConnect(1, connected, <<>>)

SpecLoops == InitLoops /\ [][NextLoops]_vars

\* The encryption manager under any sequence of calls.
InitCrypto == InitProgram /\ InitNotes /\ watch = {}

NextCrypto ==
    \/ \E pw \in Passwords, r \in Rands : GenerateMasterKey(pw, r)
    \/ \E k \in KeyIds : DeriveSessionKey(k)
    \/ \E d \in Payloads, e1, e2 \in SessionIds, r \in Rands :
           AesRoundTrip(d, e1, e2, r)
    \/ \E d \in Payloads, e \in SessionIds, r1, r2 \in Rands :
           RoundTrip(d, e, r1, r2)
    \/ \E d \in Payloads, e1, e2 \in SessionIds, r1, r2 \in Rands :
           CrossEpoch(d, e1, e2, r1, r2)
    \/ ClearSessionKeys

SpecCrypto == InitCrypto /\ [][NextCrypto]_vars

\* The timed loop against a clock that counts minutes from midnight.  The
\* scheduler is started once; a timer wait may end late and a rotation may
\* take any number of minutes.
MaxTime == 64
TimedConfigs ==
    {RotationConfig("timed", {2}), RotationConfig("timed", {2, 62}),
     RotationConfig("timed", {2, 32})}

\* A minute passes.
Tick ==
    /\ now < MaxTime
    /\ now' = now + 1
    /\ UNCHANGED <<rotatorVars, torVars, rot, task, snap_seq, circ_seq, fired>>
    /\ NoteOutside
    /\ NoteStop(FALSE)

\* datetime.now().strftime("%H:%M") (ip_rotator.py:176), as the minute of
\* the day.
CurrentTime == now % DayMinutes

\* A pass of _timed_rotation_loop once its asyncio.sleep() is over.
TimedLoopClock(t) ==
    /\ now >= task[t].wake
    /\ TimedLoopBody(t, CurrentTime \in config.schedule_times)

InitTimed == InitProgram /\ InitNotes /\ watch = {"fires"}

NextTimed ==
    \/ Tick
    \/ \E cfg \in TimedConfigs : SetRotationConfig(cfg)
    \/ rotation_task = None /\ StartRotation(1)
    \/ \E t \in Tasks : TimedLoopClock(t)
    \/ \E p \in Procs : RotateIpResumeNoAddress(p)
    \/ \E launched \in BOOLEAN : StartTor(1, launched)
    \/ \E connected \in BOOLEAN : StartTorConnect(1, connected, <<>>)

SpecTimed == InitTimed /\ [][NextTimed]_vars

\* Rotations that succeed and fail, callbacks, and a performance loop
\* sampling the connection, timers left open.
InitHistory == InitProgram /\ InitNotes /\ watch = {"calls"}

NextHistory ==
    \/ RotateIp(1)
    \/ \E p \in Procs : RotateIpResume(p)
    \/ \E launched \in BOOLEAN : StartTor(1, launched)
    \/ \E connected \in BOOLEAN : StartTorConnect(1, connected, <<>>)
    \/ AddRotationCallback
    \/ SetRotationConfig(RotationConfig("performance", {}))
    \/ rotation_task = None /\ StartRotation(1)
    \/ \E t \in Tasks : PerformanceLoop(t)

SpecHistory == InitHistory /\ [][NextHistory]_vars

\* The performance loop against the clock, with the default cooldown and with
\* one longer than the loop's check period.  The scheduler is started once
\* and TOR is not started, as in the auto-rotation of cli/main.py:272-300, so
\* every rotation the loop triggers returns at once.
PerfConfigs ==
    {[RotationConfig("performance", {}) EXCEPT !.cooldown_seconds = c] :
        c \in {DefaultCooldownSeconds, 600}}

\* A pass of _performance_rotation_loop once its asyncio.sleep() is over.
PerformanceLoopClock(t) ==
    /\ now >= task[t].wake
    /\ \E responded \in BOOLEAN, response_time \in Latencies :
           PerformanceLoopBody(t, responded, response_time)

InitPerf == InitProgram /\ InitNotes /\ watch = {"fires"}

NextPerf ==
    \/ Tick
    \/ \E cfg \in PerfConfigs : SetRotationConfig(cfg)
    \/ rotation_task = None /\ StartRotation(1)
    \/ \E t \in Tasks : PerformanceLoopClock(t)

SpecPerf == InitPerf /\ [][NextPerf]_vars

\* The interval loop against the clock, next to a caller who rotates by
\* hand, possibly twice at a time.  The scheduler is started once.
IntervalLoopClock(t) ==
    /\ now >= task[t].wake
    /\ IntervalLoopBody(t)

InitInterval == InitProgram /\ InitNotes /\ watch = {"fires"}

NextInterval ==
    \/ Tick
    \/ SetRotationConfig(RotationConfig("interval", {}))
    \/ rotation_task = None /\ StartRotation(1)
    \/ \E t \in Tasks : IntervalLoopClock(t)
    \/ \E c \in Callers : RotateIp(c)
    \/ \E p \in Procs : RotateIpResumeNoAddress(p)
    \/ \E launched \in BOOLEAN : StartTor(1, launched)
    \/ \E connected \in BOOLEAN : StartTorConnect(1, connected, <<>>)

SpecInterval == InitInterval /\ [][NextInterval]_vars

\* One caller rotating with callbacks that may suspend.  Every coroutine the
\* event loop can resume is resumed in the end; a callback need not ever
\* complete.
InitAwait == InitProgram /\ InitNotes /\ watch = {}

NextAwait ==
    \/ \E launched \in BOOLEAN : StartTor(1, launched)
    \/ \E connected \in BOOLEAN : StartTorConnect(1, connected, <<>>)
    \/ AddRotationCallback
    \/ RotateIp(1)
    \/ RotateIpResume(1)
    \/ RotateIpAwaitCallback(1)
    \/ CallbackDone(1)

SpecAwait ==
    InitAwait /\ [][NextAwait]_vars /\ WF_vars(RotateIpResume(1))

\* ---------------------------------------------------------------- claims
InFlight(p) == rot[p] \in {"tor_wait", "settle"}

\* C1: at any moment at most one rotate_ip() call is past the is_rotating
\* guard; a call that begins while a rotation is in flight is turned away
\* without asking TOR for a new identity.
C1_AtMostOneInFlight == Cardinality({p \in Procs : InFlight(p)}) <= 1

\* A successful rotate_ip() call that began with no rotation in flight and
\* during which exactly one other call began: two overlapping calls.
TwoCallsOverlapped ==
    /\ last_ret # Nil
    /\ last_ret.res = "ok"
    /\ last_ret.alone
    /\ last_ret.others = 1

C3_FailedRotationKeepsIdentity ==
    (last_ret # Nil /\ last_ret.res \in {"build_failed", "fail"} /\ last_ret.quiet)
        => last_ret.kept

\* C6: at most one background policy loop is alive at a time.
Alive(t) == task[t].pc \in {"sleep", "rotating"} /\ ~task[t].cancel
C6_AtMostOneLoopAlive == Cardinality({t \in Tasks : Alive(t)}) <= 1

\* C7: a background loop exits only from one of its timer waits, never while
\* its rotate_ip() call is in flight.
C7_LoopExitsOnlyAtTimerWait ==
    [][\A t \in Tasks :
          (task[t].pc # "done" /\ task'[t].pc = "done") => task[t].pc = "sleep"]_vars

\* C8: after set_rotation_config() has changed the mode, the old mode's
\* loop triggers no rotation: a loop's rotate_ip() call goes in flight only
\* while the loop's mode is the configured one.
C8_OldLoopSilentAfterSwitch ==
    [][\A t \in Tasks :
          (rot[TaskProc(t)] = "idle" /\ rot'[TaskProc(t)] = "tor_wait")
              => task[t].kind = config.mode]_vars

\* C9: stop_rotation() with no task scheduled changes nothing, and a second
\* stop_rotation() right after a first changes nothing either.
C9_StopRotationIdempotent ==
    [][StopRotation =>
          ((rotation_task = None \/ stop_run > 0) => UNCHANGED progVars)]_vars

\* Two stop_rotation() calls in a row, the first of which cancelled a loop.
C9_Witness ==
    /\ stop_run = 2
    /\ rotation_task = None
    /\ \E t \in Tasks : task[t].cancel

\* C10: in timed mode a loop calls rotate_ip() at most once in any one clock
\* minute, however often it polls in that minute.
C10_TimedFiresOncePerMinute == \A t \in Tasks : fired[t].count <= 1

\* The loop fired at 00:02 and, an hour later, at 01:02.
C10_Witness ==
    \E t \in Tasks : fired[t].count = 1 /\ fired[t].minute = 62

\* C4: with a master key set, decrypt_multi_layer(encrypt_multi_layer(P, E))
\* returns P.
C4_MultiLayerRoundTrip ==
    (outcome # Nil /\ outcome.op = "round_trip" /\ outcome.master # NoKey)
        => /\ outcome.raised = "none"
           /\ outcome.value.kind = "plain"
           /\ outcome.value.body = outcome.data

\* C5: with the keys of both epochs present, the envelope of
\* encrypt_multi_layer under E1 handed to decrypt_multi_layer under another
\* epoch E2 fails with an authentication error.
C5_CrossEpochRejected ==
    (/\ outcome # Nil
     /\ outcome.op = "cross_epoch"
     /\ \A e \in {outcome.session_id, outcome.other_id} :
            outcome.had[e] # NoKey /\ outcome.had[ChachaId(e)] # NoKey)
        => outcome.raised = "InvalidTag"

\* C11: after a performance-triggered rotation the performance loop
\* triggers no further one until cooldown_seconds have elapsed, whatever the
\* configured cooldown.
C11_OneRotationPerCooldown ==
    [][\A t \in Tasks :
          (fired'[t] # fired[t] /\ fired[t].count > 0)
              => (now - fired[t].minute) * 60 >= config.cooldown_seconds]_vars

\* C12: a rotate_ip() call reports a failed identity build only after
\* max_rotation_attempts attempts at it.
C12_BuildRetried ==
    (last_ret # Nil /\ last_ret.res = "build_failed")
        => last_ret.attempts = max_rotation_attempts

\* C13: when a registered callback raises during a successful rotation,
\* every registered callback is still invoked, the new snapshot is the
\* current one, and rotate_ip() returns success.
C13_CallbackFailureIsolated ==
    (last_ret # Nil /\ last_ret.callbacks.raised > 0)
        => /\ last_ret.res = "ok"
           /\ last_ret.callbacks.invoked = last_ret.callbacks.registered
           /\ last_ret.callbacks.is_current

\* The first of two registered callbacks raised.
C13_Witness ==
    /\ last_ret # Nil
    /\ last_ret.res = "ok"
    /\ last_ret.callbacks.registered = 2
    /\ last_ret.callbacks.invoked = 2
    /\ last_ret.callbacks.raised = 1

\* The TOR controller started, used for rotations and stopped, by one caller.
InitTor == InitProgram /\ InitNotes /\ watch = {}

NextTor ==
    \/ \E launched \in BOOLEAN : StartTor(1, launched)
    \/ \E connected \in BOOLEAN, feed \in Feeds :
          StartTorConnect(1, connected, feed)
    \/ \E closed, killed \in BOOLEAN : StopTor(closed, killed)
    \/ RotateIp(1)
    \/ RotateIpResume(1)

SpecTor == InitTor /\ [][NextTor]_vars

\* C14: after clear_session_keys() the manager holds no session key and no
\* master key.
C14_ClearRemovesAllKeys ==
    (outcome # Nil /\ outcome.op = "clear_session_keys")
        => /\ master_key = NoKey
           /\ \A k \in KeyIds : session_keys[k] = NoKey

\* C18: with a master key set, decrypt_aes(encrypt_aes(P, s), s) returns P,
\* whether the key of session s was there or is derived on first use.
C18_AesRoundTrip ==
    (/\ outcome # Nil
     /\ outcome.op = "aes_round_trip"
     /\ outcome.master # NoKey
     /\ outcome.session_id = outcome.other_id)
        => /\ outcome.raised = "none"
           /\ outcome.value = Bytes(outcome.data)

\* The default session's key was derived by encrypt_aes itself.
C18_Witness ==
    /\ outcome # Nil
    /\ outcome.op = "aes_round_trip"
    /\ outcome.master # NoKey
    /\ outcome.session_id = <<"default">>
    /\ outcome.other_id = <<"default">>
    /\ outcome.had[<<"default">>] = NoKey
    /\ outcome.raised = "none"
    /\ outcome.data = <<72, 105>>

\* C15: after a stop_tor() in which nothing raises, get_connection_status()
\* reports the controller disconnected and no current circuit.
C15_StopTorLeavesNoIdentity ==
    [][StopTor(TRUE, TRUE)
          => /\ ~get_connection_status'.is_connected
             /\ get_connection_status'.current_circuit = None]_vars

\* C16: for every limit >= 0, get_ip_history(limit) returns at most limit
\* snapshots, and they are the last ones of ip_history in its order.
C16_HistoryLimited ==
    \A limit \in Limits :
        LET h == get_ip_history(limit)
        IN /\ Len(h) <= limit
           /\ h = SubSeq(ip_history, Len(ip_history) - Len(h) + 1,
                         Len(ip_history))

\* C17: every performance score stored by a sampling lies in [0, 1]
\* (0..ScoreUnit in fiftieths), whatever latency was measured.
C17_ScoreWithinUnit ==
    \A i \in 1..MaxSnap : performance_score[i] \in 0..ScoreUnit

\* C19: ip_history is ordered by strictly increasing identity generation:
\* no snapshot appears twice.
C19_HistoryStrictlyIncreasing ==
    \A i, j \in 1..Len(ip_history) :
        i < j => ip_history[i] < ip_history[j]

\* C20: a snapshot that is in ip_history keeps the value of every field,
\* whatever step follows.
C20_AppendedSnapshotFrozen ==
    [][\A i \in 1..Len(ip_history) :
          performance_score'[ip_history[i]] = performance_score[ip_history[i]]]_vars

\* C21: a tick of the interval loop that comes while a rotation is in
\* flight changes no identity, appends nothing and returns at once, and the
\* loop's next attempt is due no earlier than one full interval later.
C21_BusyTickSkipped ==
    [][\A t \in Tasks :
          (/\ fired'[t] # fired[t]
           /\ task[t].kind = "interval"
           /\ \E q \in Procs : InFlight(q))
              => /\ ip_history' = ip_history
                 /\ TrackedNext = Tracked
                 /\ rot'[TaskProc(t)] = "idle"
                 /\ task'[t].pc = "sleep"
                 /\ task'[t].wake >= now + config.interval_minutes]_vars

\* C22: a loop whose rotate_ip() call is over, however it ended, is at its
\* next timer wait, and a loop ends only with a cancellation pending.
C22_LoopSurvivesFailure ==
    [][\A t \in Tasks :
          /\ (task[t].pc # "done" /\ task'[t].pc = "done") => task[t].cancel
          /\ (/\ task[t].pc \in {"sleep", "rotating"}
              /\ ~task[t].cancel
              /\ rot[TaskProc(t)] # rot'[TaskProc(t)]
              /\ rot'[TaskProc(t)] = "idle")
                 => task'[t].pc = "sleep"]_vars

\* A timed loop is back at its timer wait after a rotate_ip() call that went
\* through TOR and failed.
C22_Witness ==
    /\ task[1].kind = "timed"
    /\ task[1].pc = "sleep"
    /\ ~task[1].cancel
    /\ task[1].wake = TimedFiredSleep
    /\ circ_seq > 0
    /\ current_ip_info = None
    /\ rot[TaskProc(1)] = "idle"

\* C23: a rotate_ip() call that is under way eventually returns with the
\* is_rotating guard released, also when a callback never completes.
C23_RotateIpReturns ==
    (rot[1] \in {"tor_wait", "settle", "callback_wait"})
        ~> (rot[1] = "idle" /\ ~is_rotating)

\* C24: the key held for layer 2 of a session is never the key held for
\* layer 1 of a session, whatever the two session ids.
C24_LayerKeysDisjoint ==
    \A s \in SessionIds, t \in KeyIds :
        (/\ session_keys[Layer2Entry(s)] # NoKey
         /\ session_keys[Layer1Entry(t)] # NoKey)
            => /\ Layer2Entry(s) # Layer1Entry(t)
               /\ session_keys[Layer2Entry(s)] # session_keys[Layer1Entry(t)]

\* C25: safe_exit_nodes holds each fingerprint at most once, whatever
\* start_tor() and stop_tor() calls were made.
C25_PoolFingerprintsUnique ==
    \A i, j \in 1..Len(safe_exit_nodes) :
        i # j => safe_exit_nodes[i] # safe_exit_nodes[j]

\* C26: once stop_rotation() has returned, and until something else is
\* called, no background loop starts a rotation.
C26_NoRotationAfterStop ==
    [][stop_run > 0
          => \A t \in Tasks :
                ~(/\ rot[TaskProc(t)] = "idle"
                  /\ rot'[TaskProc(t)] = "tor_wait")]_vars

\* C27: every session key held is the one derived from the current master
\* key for its session id.
C27_SessionKeysFollowMaster ==
    \A k \in KeyIds :
        session_keys[k] # NoKey => session_keys[k] = HKDF(master_key, k)

\* C28: a rotate_ip() call that got the new address but no geolocation
\* returns success: a new snapshot is current, last_rotation_time is
\* updated and every callback was invoked.
C28_NoLocationStillSucceeds ==
    [][\A p \in Procs :
          RotateIpFinish(p, TRUE, FALSE)
              => /\ snap_seq' = snap_seq + 1
                 /\ current_ip_info' = snap_seq'
                 /\ last_rotation_time' # last_rotation_time
                 /\ last_ret'.res = "ok"
                 /\ last_ret'.callbacks.invoked = Len(rotation_callbacks)]_vars

\* C29: at a minute listed in schedule_times a running timed loop makes its
\* rotate_ip() attempt or is due to look at the clock within that minute; it
\* is not asleep past it.
C29_ScheduledMinuteServed ==
    \A t \in Tasks :
        (/\ task[t].kind = "timed"
         /\ task[t].pc = "sleep"
         /\ ~task[t].cancel
         /\ config.mode = "timed"
         /\ CurrentTime \in config.schedule_times)
            => \/ fired[t].count > 0 /\ fired[t].minute = now
               \/ task[t].wake <= now + TimedPollSleep

\* C30: a pass of the performance loop whose measurement fails scores it 0
\* and calls rotate_ip(), as a pass does whose measured score is below the
\* threshold.
C30_FailedMeasurementRotates ==
    [][\A t \in Tasks, rt \in Latencies :
          (\/ PerformanceLoopBody(t, FALSE, rt)
           \/ /\ PerformanceLoopBody(t, TRUE, rt)
              /\ PerformanceScore(rt) < performance_threshold)
              => /\ TestConnectionPerformance(FALSE, rt) = 0
                 /\ \E sigOk \in BOOLEAN : RotateIpEnter(TaskProc(t), sigOk)]_vars

\* The loop is in a rotation it started although the latest score stored for
\* the current snapshot is above the threshold: the pass that started it
\* stored nothing, its measurement failed.
C30_Witness ==
    /\ task[1].kind = "performance"
    /\ task[1].pc = "rotating"
    /\ rot[TaskProc(1)] = "tor_wait"
    /\ current_ip_info # None
    /\ performance_score[current_ip_info] >= performance_threshold

====
